---- MODULE Spec2Model ----
(***************************************************************************)
(* A model of the OpenQASM3 exporter of qiskit/qasm3/exporter.py and of    *)
(* the AST nodes of qiskit/qasm3/grammar.py.                               *)
(*                                                                         *)
(* One behaviour is the use of one circuit: Exporter(circuit, includes)    *)
(* has been constructed (Init), dumps() is called (StartExport), the       *)
(* declarations are hoisted one loop iteration at a time (Hoist...), the   *)
(* definitions are built one at a time (BuildDefinition), and the rest of  *)
(* the program is built, unparsed and flattened (BuildGlobals).  An        *)
(* exception ends the export in phase "error".  dumps() may then be called *)
(* a second time on the same Exporter (ExportAgain).  Instead of dumps(),  *)
(* the first call may be one of the other entry points: Exporter.dump,     *)
(* the module functions dumps and dump, or a construction with the         *)
(* keyword disable_constants.                                              *)
(***************************************************************************)
EXTENDS Integers, Sequences, FiniteSets, TLC

VARIABLES
    circuit,        \* quantumcircuit.data: the sequence of instruction objects
    includesArg,    \* the `includes` argument Exporter was constructed with
    expIncludes,    \* Exporter.includes (NoAttr when __init__ did not set it)
    phase,          \* "ready", "hoist", "defs", "done" or "error"
    err,            \* the exception that ended the export, "" when none
    fwd,            \* GlobalNamespace.__dict__, string keys: name -> class or instruction
    bwd,            \* GlobalNamespace.__dict__, integer keys: id -> name
    gateDecl,       \* Qasm3Builder._gate_to_declare, in insertion order
    subDecl,        \* Qasm3Builder._subroutine_to_declare, in insertion order
    opaqueDecl,     \* Qasm3Builder._opaque_to_declare, in insertion order
    flatReg,        \* Qasm3Builder._flat_reg
    stack,          \* the activations of hoist_declarations, innermost last
    defs,           \* the definitions build_definitions has built so far
    prog,           \* the Program node build_program returns
    text,           \* the string dumps() returns
    api,            \* the entry point that was called, "" before the call
    stream,         \* the content of the stream handed to dump
    run,            \* 1 during the first call of dumps(), 2 during the second
    prev,           \* the outcome of the first call, once the second has begun
    condition,      \* the attribute `condition` of every instruction object
    regs            \* quantumcircuit.qregs and quantumcircuit.cregs

vars == <<circuit, includesArg, expIncludes, phase, err, fwd, bwd, gateDecl,
          subDecl, opaqueDecl, flatReg, stack, defs, prog, text, api, stream,
          run, prev, condition, regs>>

----------------------------------------------------------------------------
(* Bounds *)

\* The longest top-level instruction list of a circuit.
MaxLen == 2

----------------------------------------------------------------------------
(* Python values *)

None == "None"
\* an attribute that was never assigned (reading it raises AttributeError)
NoAttr == [set |-> FALSE, val |-> <<>>]

\* Classes of qiskit.circuit that are subclasses of Gate (Gate included).
GateClasses == {"Gate", "UGate", "U3Gate", "U2Gate", "HGate", "CXGate", "CHGate", "XGate"}

\* isinstance(x, Gate) for an object of class cls
IsGate(cls) == cls \in GateClasses

\* Qasm3Builder.builtins
builtins == {"Barrier", "Measure"}

\* GlobalNamespace.qiskit_gates, in the order of the dict literal
qiskit_gates ==
    <<
      <<"p", "PhaseGate">>, <<"x", "XGate">>, <<"y", "YGate">>,
      <<"z", "ZGate">>, <<"h", "HGate">>, <<"s", "SGate">>,
      <<"sdg", "SdgGate">>, <<"t", "TGate">>, <<"tdg", "TdgGate">>,
      <<"sx", "SXGate">>, <<"rx", "RXGate">>, <<"ry", "RYGate">>,
      <<"rz", "RZGate">>, <<"cx", "CXGate">>, <<"cy", "CYGate">>,
      <<"cz", "CZGate">>, <<"cp", "CPhaseGate">>, <<"crx", "CRXGate">>,
      <<"cry", "CRYGate">>, <<"crz", "CRZGate">>, <<"ch", "CHGate">>,
      <<"swap", "SwapGate">>, <<"ccx", "CCXGate">>, <<"cswap", "CSwapGate">>,
      <<"cu", "CUGate">>, <<"CX", "CXGate">>, <<"phase", "PhaseGate">>,
      <<"cphase", "CPhaseGate">>, <<"id", "IGate">>, <<"u1", "U1Gate">>,
      <<"u2", "U2Gate">>, <<"u3", "U3Gate">>
    >>

\* A value of the name -> object half of the namespace
ClassVal(c) == [k |-> "class", c |-> c, i |-> 0]
InstVal(i) == [k |-> "inst", c |-> "", i |-> i]

----------------------------------------------------------------------------
(* The instruction objects a circuit is built from *)

\* A parameter value: the angle n*pi/d (a float), or an unbound Parameter
Angle(n, d) == [sym |-> "", n |-> n, d |-> d]
Param(name) == [sym |-> name, n |-> 0, d |-> 1]

\* The names of the unbound parameters, sorted as QuantumCircuit.parameters
\* sorts them
ParamNames == <<"phi", "theta">>

\* A classical condition (c_if): on a whole register, or on one bit of it
NoCond == [kind |-> "none", reg |-> "", index |-> 0, val |-> 0]
RegCond(r, v) == [kind |-> "reg", reg |-> r, index |-> 0, val |-> v]
BitCond(r, i, v) == [kind |-> "bit", reg |-> r, index |-> i, val |-> v]

\* An instruction's definition: None, or a circuit with the body `data`
NoDef == [none |-> TRUE, data |-> <<>>]
Def(data) == [none |-> FALSE, data |-> data]

MkObj(cls, name, nq, params, def, cond, qargs, cargs) ==
    [cls |-> cls, name |-> name, nq |-> nq, nc |-> Len(cargs), params |-> params,
     def |-> def, cond |-> cond, qargs |-> qargs, cargs |-> cargs]

\* Every instruction object, by id().  def is None or the ids of the body
\* (definition.data); qargs and cargs are the bit indices the object is
\* applied to wherever it occurs.
U    == 1    \* UGate (the universal one-qubit gate)
U3   == 2    \* U3Gate, defined by U (the object UD)
U2   == 3    \* U2Gate, defined by u3
H    == 4    \* HGate, defined by u2
CX   == 5    \* CXGate, no definition
BAR  == 6    \* Barrier
MEAS == 7    \* Measure
G1   == 8    \* a composite instruction "my_gate" on one qubit, body h
G2   == 9    \* another composite instruction "my_gate", body x
G3   == 10   \* a third composite instruction "my_gate", body x
GN   == 11   \* a custom gate whose own name is "my_gate_" + id(G2)
S1   == 12   \* the composite instruction "composite_circ": h(0), x(1), cx(0, 1)
GCX  == 13   \* a custom gate named "cx"
GCXC == 14   \* a custom gate named "cx" with a condition on register cr
HC   == 15   \* an h gate with a condition on register cr
HB   == 16   \* an h gate with a condition on the single bit cr[1]
OPQ  == 17   \* a custom gate without definition
UD   == 18   \* the UGate of the definition of u3
MEAS2 == 19  \* a Measure with two classical targets
RST  == 20   \* a Reset: neither gate, composite, barrier nor measurement
UT   == 21   \* a UGate with the unbound parameters theta and phi
X    == 22   \* XGate, defined by u3(pi, 0, pi) (the object U3X)
U3X  == 23   \* the U3Gate of the definition of x
UDX  == 24   \* the UGate of the definition of U3X
CXO  == 25   \* an open-controlled CXGate (ctrl_state=0): its name is "cx_o0"
GT   == 26   \* a custom gate with one bound and two free parameters
SP   == 27   \* a composite instruction (not a gate) with one parameter
SB   == 28   \* a composite instruction whose body has a gate conditioned on a bit
MC   == 29   \* a Measure with a condition on register cr
X1   == 30   \* the x gate on the second qubit of a definition
G4   == 31   \* a fourth composite instruction "my_gate", equal to G1 (body h)
SG   == 32   \* a composite instruction "sub" that calls G1 and GN
ST   == 33   \* a composite instruction (not a gate) with two free parameters
GF   == 34   \* a custom gate without params whose body has free parameters

Obj(i) ==
    CASE i = U    -> MkObj("UGate", "u", 1, <<Angle(2, 1), Angle(3, 1), Angle(-5, 1)>>,
                           NoDef, NoCond, <<0>>, <<>>)
      [] i = U3   -> MkObj("U3Gate", "u3", 1, <<Angle(1, 2), Angle(0, 1), Angle(1, 1)>>,
                           Def(<<UD>>), NoCond, <<0>>, <<>>)
      [] i = U2   -> MkObj("U2Gate", "u2", 1, <<Angle(0, 1), Angle(1, 1)>>,
                           Def(<<U3>>), NoCond, <<0>>, <<>>)
      [] i = H    -> MkObj("HGate", "h", 1, <<>>, Def(<<U2>>), NoCond, <<0>>, <<>>)
      [] i = CX   -> MkObj("CXGate", "cx", 2, <<>>, NoDef, NoCond, <<0, 1>>, <<>>)
      [] i = BAR  -> MkObj("Barrier", "barrier", 2, <<>>, NoDef, NoCond, <<0, 1>>, <<>>)
      [] i = MEAS -> MkObj("Measure", "measure", 1, <<>>, NoDef, NoCond, <<0>>, <<0>>)
      [] i = G1   -> MkObj("Instruction", "my_gate", 1, <<>>, Def(<<H>>), NoCond, <<0>>, <<>>)
      [] i = G2   -> MkObj("Instruction", "my_gate", 1, <<>>, Def(<<X>>), NoCond, <<0>>, <<>>)
      [] i = G3   -> MkObj("Instruction", "my_gate", 1, <<>>, Def(<<X>>), NoCond, <<0>>, <<>>)
      [] i = GN   -> MkObj("Gate", "my_gate_" \o ToString(G2), 2, <<>>, Def(<<H>>), NoCond,
                           <<0, 1>>, <<>>)
      [] i = S1   -> MkObj("Instruction", "composite_circ", 2, <<>>, Def(<<H, X1, CX>>),
                           NoCond, <<0, 1>>, <<>>)
      [] i = GCX  -> MkObj("Gate", "cx", 2, <<>>, Def(<<CX>>), NoCond, <<0, 1>>, <<>>)
      [] i = GCXC -> MkObj("Gate", "cx", 2, <<>>, Def(<<CX>>), RegCond("cr", 1),
                           <<0, 1>>, <<>>)
      [] i = HC   -> MkObj("HGate", "h", 1, <<>>, Def(<<U2>>), RegCond("cr", 2), <<1>>, <<>>)
      [] i = HB   -> MkObj("HGate", "h", 1, <<>>, Def(<<U2>>), BitCond("cr", 1, 1), <<1>>, <<>>)
      [] i = OPQ  -> MkObj("Gate", "opq", 2, <<>>, NoDef, NoCond, <<0, 1>>, <<>>)
      [] i = UD   -> MkObj("UGate", "u", 1, <<Angle(1, 2), Angle(0, 1), Angle(1, 1)>>,
                           NoDef, NoCond, <<0>>, <<>>)
      [] i = MEAS2 -> MkObj("Measure", "measure", 1, <<>>, NoDef, NoCond, <<1>>, <<1, 0>>)
      [] i = RST  -> MkObj("Reset", "reset", 1, <<>>, NoDef, NoCond, <<0>>, <<>>)
      [] i = UT   -> MkObj("UGate", "u", 1, <<Param("theta"), Param("phi"), Angle(0, 1)>>,
                           NoDef, NoCond, <<1>>, <<>>)
      [] i = X    -> MkObj("XGate", "x", 1, <<>>, Def(<<U3X>>), NoCond, <<0>>, <<>>)
      [] i = U3X  -> MkObj("U3Gate", "u3", 1, <<Angle(1, 1), Angle(0, 1), Angle(1, 1)>>,
                           Def(<<UDX>>), NoCond, <<0>>, <<>>)
      [] i = UDX  -> MkObj("UGate", "u", 1, <<Angle(1, 1), Angle(0, 1), Angle(1, 1)>>,
                           NoDef, NoCond, <<0>>, <<>>)
      [] i = CXO  -> MkObj("CXGate", "cx_o0", 2, <<>>, Def(<<X, CX, X>>), NoCond,
                           <<0, 1>>, <<>>)
      [] i = GT   -> MkObj("Gate", "rot", 2, <<Angle(1, 1), Param("phi"), Param("theta")>>,
                           Def(<<UT>>), NoCond, <<0, 1>>, <<>>)
      [] i = SP   -> MkObj("Instruction", "sub_p", 1, <<Angle(1, 2)>>, Def(<<H>>), NoCond,
                           <<1>>, <<>>)
      [] i = SB   -> MkObj("Instruction", "sub_b", 2, <<>>, Def(<<HB>>), NoCond,
                           <<0, 1>>, <<0, 1>>)
      [] i = MC   -> MkObj("Measure", "measure", 1, <<>>, NoDef, RegCond("cr", 1),
                           <<0>>, <<0>>)
      [] i = X1   -> MkObj("XGate", "x", 1, <<>>, Def(<<U3X>>), NoCond, <<1>>, <<>>)
      [] i = G4   -> MkObj("Instruction", "my_gate", 1, <<>>, Def(<<H>>), NoCond, <<0>>, <<>>)
      [] i = SG   -> MkObj("Instruction", "sub", 2, <<>>, Def(<<G1, GN>>), NoCond,
                           <<0, 1>>, <<>>)
      [] i = ST   -> MkObj("Instruction", "sub_t", 2, <<Param("theta"), Param("phi")>>,
                           Def(<<UT>>), NoCond, <<0, 1>>, <<>>)
      [] i = GF   -> MkObj("Gate", "free", 2, <<>>, Def(<<UT>>), NoCond, <<0, 1>>, <<>>)

\* The objects that occur only inside definitions
InnerObjs == {U3, U2, UD, X, U3X, UDX, X1}

\* The objects a circuit's top-level instruction list is drawn from
TopObjs == {U, H, CX, BAR, MEAS, G1, G2, G3, GN, S1, GCX, GCXC, HC, HB, OPQ,
            MEAS2, RST, UT, CXO, GT, SP, SB, MC, G4, SG, ST, GF}

ObjIds == TopObjs \cup InnerObjs

\* The circuits: every instruction list of at most MaxLen objects
Circuits == UNION {[1..n -> TopObjs] : n \in 0..MaxLen}

\* The `includes` arguments: omitted, one filename, or a list of filenames
NoneArg == [kind |-> "None", str |-> "", list |-> <<>>]
StrArg(f) == [kind |-> "str", str |-> f, list |-> <<>>]
ListArg(l) == [kind |-> "list", str |-> "", list |-> l]
IncludeArgs == {NoneArg, StrArg("other.inc"), ListArg(<<>>), ListArg(<<"stdgates.inc">>)}

\* The registers of every circuit, and the one register of every definition
CircQreg == [name |-> "qr", size |-> 2]
CircCreg == [name |-> "cr", size |-> 2]
DefQreg(nq) == [name |-> "q", size |-> nq]

\* Registers a circuit may have after those: an ancilla and a second
\* classical register
AncQreg == [name |-> "anc", size |-> 1]
ExtraCreg == [name |-> "c2", size |-> 1]

\* quantumcircuit.qregs and quantumcircuit.cregs, in registration order
Layouts ==
    {[q |-> <<CircQreg>>, c |-> <<CircCreg>>],
     [q |-> <<CircQreg, AncQreg>>, c |-> <<CircCreg, ExtraCreg>>]}

\* id() of a class object: a key of the namespace that no instruction has
ClassNames ==
    <<"PhaseGate", "XGate", "YGate", "ZGate", "HGate", "SGate", "SdgGate", "TGate",
      "TdgGate", "SXGate", "RXGate", "RYGate", "RZGate", "CXGate", "CYGate",
      "CZGate", "CPhaseGate", "CRXGate", "CRYGate", "CRZGate", "CHGate",
      "SwapGate", "CCXGate", "CSwapGate", "CUGate", "IGate", "U1Gate", "U2Gate",
      "U3Gate">>

ClassId(c) == 100 + (CHOOSE k \in 1..Len(ClassNames) : ClassNames[k] = c)

\* id() of the object instruction.copy() returns: the id of no object that
\* was alive before the call, so a key of no namespace entry
CopyId == 0

----------------------------------------------------------------------------
(* Instruction.__eq__: same class, name, dimensions, definition and params *)

RECURSIVE InstrEq(_, _)
InstrEq(a, b) ==
    \E x \in {Obj(a)}, y \in {Obj(b)} :
        /\ x.cls = y.cls
        /\ x.name = y.name
        /\ x.nq = y.nq
        /\ x.nc = y.nc
        /\ x.def.none = y.def.none
        /\ Len(x.def.data) = Len(y.def.data)
        /\ \A k \in 1..Len(x.def.data) :
              \E p \in {x.def.data[k]}, q \in {y.def.data[k]} :
                  /\ InstrEq(p, q)
                  /\ Obj(p).qargs = Obj(q).qargs
                  /\ Obj(p).cond = Obj(q).cond
        /\ x.params = y.params

----------------------------------------------------------------------------
(* GlobalNamespace *)

\* d[k] = v on a dict d
DictSet(d, k, v) == [x \in DOMAIN d \cup {k} |-> IF x = k THEN v ELSE d[x]]

EmptyDict == <<>>

\* GlobalNamespace.__setitem__
SetItem(ns, name_str, val, ident) ==
    [fwd |-> DictSet(ns.fwd, name_str, val), bwd |-> DictSet(ns.bwd, ident, name_str)]

\* The last entry of qiskit_gates whose component c (1: name, 2: class) is v
LastEntry(c, v) ==
    CHOOSE k \in 1..Len(qiskit_gates) :
        /\ qiskit_gates[k][c] = v
        /\ \A j \in (k + 1)..Len(qiskit_gates) : qiskit_gates[j][c] # v

\* MutableMapping.update(qiskit_gates): one __setitem__ per entry in order,
\* so that the last entry with a key decides its value
UpdateGates(ns) ==
    LET names == {qiskit_gates[k][1] : k \in 1..Len(qiskit_gates)}
        ids == {ClassId(qiskit_gates[k][2]) : k \in 1..Len(qiskit_gates)}
    IN  [fwd |-> [n \in DOMAIN ns.fwd \cup names |->
                    IF n \in names
                    THEN ClassVal(qiskit_gates[LastEntry(1, n)][2])
                    ELSE ns.fwd[n]],
         bwd |-> [d \in DOMAIN ns.bwd \cup ids |->
                    IF d \in ids
                    THEN qiskit_gates[CHOOSE k \in 1..Len(qiskit_gates) :
                             /\ ClassId(qiskit_gates[k][2]) = d
                             /\ k = LastEntry(2, qiskit_gates[k][2])][1]
                    ELSE ns.bwd[d]]]

\* GlobalNamespace.__init__
RECURSIVE NamespaceInit(_, _, _)
NamespaceInit(ns, includelist, k) ==
    IF k > Len(includelist) THEN ns
    ELSE IF includelist[k] = "stdgates.inc"
         THEN NamespaceInit(UpdateGates(ns), includelist, k + 1)
         ELSE NamespaceInit(ns, includelist, k + 1)

\* GlobalNamespace.__getitem__ for an Instruction key with id ident
NamespaceGet(ns, ident, name) ==
    IF ident \in DOMAIN ns.bwd THEN ns.bwd[ident] ELSE name

\* isinstance(instruction, self[instruction.name]) raises TypeError when the
\* name is bound to an instruction object instead of a class
ExistsRaises(ns, i) ==
    LET o == Obj(i)
    IN  /\ o.cls \notin {"UGate", "Gate", "Instruction"}
        /\ o.name \in DOMAIN ns.fwd
        /\ ns.fwd[o.name].k = "inst"

\* exists without its last branch: a library gate is looked up like a
\* user-defined one (the mutant of exists)
exists_no_library_branch(ns, i) ==
    LET o == Obj(i)
    IN  IF o.cls = "UGate" THEN TRUE
        ELSE /\ o.name \in DOMAIN ns.fwd
             /\ ns.fwd[o.name].k = "inst"
             /\ InstrEq(ns.fwd[o.name].i, i)

\* GlobalNamespace.exists, when it returns
exists(ns, i) ==
    LET o == Obj(i)
    IN  IF o.cls = "UGate" THEN TRUE
        ELSE IF o.cls \in {"Gate", "Instruction"}
        THEN /\ o.name \in DOMAIN ns.fwd
             /\ ns.fwd[o.name].k = "inst"
             /\ InstrEq(ns.fwd[o.name].i, i)
        ELSE /\ o.name \in DOMAIN ns.fwd
             /\ ns.fwd[o.name].k = "class"
             /\ ns.fwd[o.name].c = o.cls

\* f"{instruction.name}_{id(instruction)}"
SuffixedName(i) == Obj(i).name \o "_" \o ToString(i)

\* GlobalNamespace.register
register(ns, i) ==
    IF Obj(i).name \in DOMAIN ns.fwd
    THEN SetItem(ns, SuffixedName(i), InstVal(i), i)
    ELSE SetItem(ns, Obj(i).name, InstVal(i), i)

\* d[id(x)] = x on one of the _to_declare dicts: a new key goes last, an old
\* key keeps its place
DeclAdd(decl, i) ==
    IF \E k \in 1..Len(decl) : decl[k] = i THEN decl ELSE Append(decl, i)

----------------------------------------------------------------------------
(* Exporter.__init__ *)

\* self.includes after __init__(quantumcircuit, includes)
ExporterInit(includes) ==
    IF includes.kind = "None" THEN [set |-> TRUE, val |-> <<"stdgates.inc">>]
    ELSE IF includes.kind = "str" THEN [set |-> TRUE, val |-> <<includes.str>>]
    ELSE NoAttr

NoProgram == [includes |-> <<>>, statements |-> <<>>]

\* No first outcome yet
NoOutcome == [phase |-> "", err |-> "", text |-> ""]

Init ==
    /\ circuit \in Circuits
    /\ includesArg \in IncludeArgs
    /\ regs \in Layouts
    /\ expIncludes = ExporterInit(includesArg)
    /\ condition = [i \in ObjIds \cup {CopyId} |->
                      IF i = CopyId THEN NoCond ELSE Obj(i).cond]
    /\ api = ""
    /\ stream = ""
    /\ run = 1
    /\ prev = NoOutcome
    /\ phase = "ready"
    /\ err = ""
    /\ fwd = EmptyDict
    /\ bwd = EmptyDict
    /\ gateDecl = <<>>
    /\ subDecl = <<>>
    /\ opaqueDecl = <<>>
    /\ flatReg = FALSE
    /\ stack = <<>>
    /\ defs = <<>>
    /\ prog = NoProgram
    /\ text = ""

----------------------------------------------------------------------------
(* hoist_declarations *)

ns == [fwd |-> fwd, bwd |-> bwd]

Top == stack[Len(stack)]

\* the instruction the innermost loop is at
Cur == Top.list[Top.i]

\* A loop that never moves on to its next instruction (the mutant of
\* Advance)
Advance_stuck(st) == st

Advance(st) == [st EXCEPT ![Len(st)].i = @ + 1]

Raise(e) ==
    /\ phase' = "error"
    /\ err' = e

\* A namespace that is kept from one builder to the next (the mutant of
\* BuilderNamespace)
BuilderNamespace_shared(old, includeslist) == NamespaceInit(old, includeslist, 1)

\* self.global_namespace = GlobalNamespace(includeslist): a new namespace
\* object, whatever namespace `old` an earlier builder had
BuilderNamespace(old, includeslist) ==
    NamespaceInit([fwd |-> EmptyDict, bwd |-> EmptyDict], includeslist, 1)

\* Exporter.dumps -> qasm_tree -> Qasm3Builder.__init__ -> build_program,
\* up to the call of hoist_declarations(self.quantumcircuit.data)
StartExport ==
    /\ phase = "ready"
    /\ api \in {"", "Exporter.dumps"}
    /\ api' = "Exporter.dumps"
    /\ IF ~expIncludes.set
       THEN /\ Raise("AttributeError")
            /\ UNCHANGED <<fwd, bwd, stack, gateDecl, subDecl, opaqueDecl, flatReg>>
       ELSE LET n == BuilderNamespace(ns, expIncludes.val)
            IN  /\ fwd' = n.fwd
                /\ bwd' = n.bwd
                /\ gateDecl' = <<>>
                /\ subDecl' = <<>>
                /\ opaqueDecl' = <<>>
                /\ flatReg' = FALSE
                /\ stack' = <<[list |-> circuit, i |-> 1, owner |-> 0]>>
                /\ phase' = "hoist"
                /\ err' = ""
    /\ defs' = <<>>
    /\ prog' = NoProgram
    /\ text' = ""
    /\ UNCHANGED <<circuit, includesArg, expIncludes, stream, run, prev, condition, regs>>

\* dumps() returned or raised, and the caller calls it again on the same
\* Exporter
ExportAgain ==
    /\ phase \in {"done", "error"}
    /\ api = "Exporter.dumps"
    /\ run = 1
    /\ run' = 2
    /\ prev' = [phase |-> phase, err |-> err, text |-> text]
    /\ phase' = "ready"
    /\ UNCHANGED <<circuit, includesArg, expIncludes, err, fwd, bwd, gateDecl, subDecl,
                   opaqueDecl, flatReg, stack, defs, prog, text, api, stream,
                   condition, regs>>

\* An entry point that raises before any builder exists
FailedCall(name, e) ==
    /\ phase = "ready"
    /\ api = ""
    /\ api' = name
    /\ Raise(e)
    /\ UNCHANGED <<circuit, includesArg, expIncludes, fwd, bwd, gateDecl, subDecl,
                   opaqueDecl, flatReg, stack, defs, prog, text, stream, run, prev,
                   condition, regs>>

\* qasm3.dumps(quantumcircuit): Exporter() is called without the required
\* argument quantumcircuit
ModuleDumps == FailedCall("qasm3.dumps", "TypeError")

\* qasm3.dump(quantumcircuit, flo): Exporter() likewise; nothing is written
\* to flo
ModuleDump == FailedCall("qasm3.dump", "TypeError")

\* Exporter(quantumcircuit, includes).dump(flo): Exporter has no attribute
\* dump; nothing is written to flo
ExporterDump == FailedCall("Exporter.dump", "AttributeError")

\* Exporter(quantumcircuit, disable_constants=b): __init__ has no such
\* parameter
ExporterDisableConstants ==
    \E b \in BOOLEAN :
        FailedCall(IF b THEN "Exporter(disable_constants=True)"
                   ELSE "Exporter(disable_constants=False)", "TypeError")

InLoop == phase = "hoist" /\ Top.i <= Len(Top.list)

\* exists(instruction[0]) raises
HoistTypeError ==
    /\ InLoop
    /\ ExistsRaises(ns, Cur)
    /\ Raise("TypeError")
    /\ UNCHANGED <<circuit, includesArg, expIncludes, fwd, bwd, gateDecl, subDecl,
                   opaqueDecl, flatReg, stack, defs, prog, text>>
    /\ UNCHANGED <<api, stream, run, prev, condition, regs>>

\* the `continue` branch
HoistSkip ==
    /\ InLoop
    /\ ~ExistsRaises(ns, Cur)
    /\ exists(ns, Cur) \/ Obj(Cur).cls \in builtins
    /\ stack' = Advance(stack)
    /\ UNCHANGED <<circuit, includesArg, expIncludes, phase, err, fwd, bwd, gateDecl,
                   subDecl, opaqueDecl, flatReg, defs, prog, text>>
    /\ UNCHANGED <<api, stream, run, prev, condition, regs>>

\* definition is None: _register_opaque
HoistOpaque ==
    /\ InLoop
    /\ ~ExistsRaises(ns, Cur)
    /\ ~(exists(ns, Cur) \/ Obj(Cur).cls \in builtins)
    /\ Obj(Cur).def.none
    /\ IF ~exists(ns, Cur)
       THEN /\ fwd' = register(ns, Cur).fwd
            /\ bwd' = register(ns, Cur).bwd
            /\ opaqueDecl' = DeclAdd(opaqueDecl, Cur)
       ELSE UNCHANGED <<fwd, bwd, opaqueDecl>>
    /\ stack' = Advance(stack)
    /\ UNCHANGED <<circuit, includesArg, expIncludes, phase, err, gateDecl, subDecl,
                   flatReg, defs, prog, text>>
    /\ UNCHANGED <<api, stream, run, prev, condition, regs>>

\* definition is not None: the recursive call on definition.data
HoistEnter ==
    /\ InLoop
    /\ ~ExistsRaises(ns, Cur)
    /\ ~(exists(ns, Cur) \/ Obj(Cur).cls \in builtins)
    /\ ~Obj(Cur).def.none
    /\ stack' = Append(stack, [list |-> Obj(Cur).def.data, i |-> 1, owner |-> Cur])
    /\ UNCHANGED <<circuit, includesArg, expIncludes, phase, err, fwd, bwd, gateDecl,
                   subDecl, opaqueDecl, flatReg, defs, prog, text>>
    /\ UNCHANGED <<api, stream, run, prev, condition, regs>>

\* the recursive call returns: _register_gate or _register_subroutine
HoistReturn ==
    /\ phase = "hoist"
    /\ Top.i > Len(Top.list)
    /\ Top.owner # 0
    /\ fwd' = register(ns, Top.owner).fwd
    /\ bwd' = register(ns, Top.owner).bwd
    /\ IF IsGate(Obj(Top.owner).cls)
       THEN /\ gateDecl' = DeclAdd(gateDecl, Top.owner)
            /\ UNCHANGED subDecl
       ELSE /\ subDecl' = DeclAdd(subDecl, Top.owner)
            /\ UNCHANGED gateDecl
    /\ stack' = Advance(SubSeq(stack, 1, Len(stack) - 1))
    /\ UNCHANGED <<circuit, includesArg, expIncludes, phase, err, opaqueDecl, flatReg,
                   defs, prog, text>>
    /\ UNCHANGED <<api, stream, run, prev, condition, regs>>

\* hoist_declarations(self.quantumcircuit.data) returns to build_program
HoistDone ==
    /\ phase = "hoist"
    /\ Top.i > Len(Top.list)
    /\ Top.owner = 0
    /\ stack' = <<>>
    /\ phase' = "defs"
    /\ UNCHANGED <<circuit, includesArg, expIncludes, err, fwd, bwd, gateDecl, subDecl,
                   opaqueDecl, flatReg, defs, prog, text>>
    /\ UNCHANGED <<api, stream, run, prev, condition, regs>>

----------------------------------------------------------------------------
(* Strings *)

\* sep.join(strs)
RECURSIVE Join(_, _)
Join(strs, sep) ==
    IF Len(strs) = 0 THEN ""
    ELSE IF Len(strs) = 1 THEN strs[1]
    ELSE strs[1] \o sep \o Join(Tail(strs), sep)

\* pi_check(param, output="qasm") of the angle n*pi/d
PiCheck(a) ==
    IF a.sym # "" THEN a.sym
    ELSE IF a.n = 0 THEN "0"
    ELSE LET num == IF a.n = 1 THEN "pi"
                    ELSE IF a.n = -1 THEN "-pi"
                    ELSE ToString(a.n) \o "*pi"
         IN  IF a.d = 1 THEN num ELSE num \o "/" \o ToString(a.d)

\* str(param) of the angle n*pi/d, a Python float
FloatStr(a) ==
    CASE a.sym # "" -> a.sym
      [] a = Angle(0, 1) -> "0.0"
      [] a = Angle(1, 1) -> "3.141592653589793"
      [] a = Angle(1, 2) -> "1.5707963267948966"
      [] a = Angle(2, 1) -> "6.283185307179586"
      [] a = Angle(3, 1) -> "9.42477796076938"
      [] a = Angle(-5, 1) -> "-15.707963267948966"

----------------------------------------------------------------------------
(* Qasm3Builder: from instructions to AST nodes *)

\* The registers the bit indices of an instruction list refer to
TopCtx == [q |-> regs.q, c |-> regs.c]
DefCtx(i) == [q |-> <<DefQreg(Obj(i).nq)>>, c |-> <<[name |-> "c", size |-> Obj(i).nc]>>]

Bit(reg, index) == [reg |-> reg, index |-> index]

\* The n-th bit (from 0) of a circuit with the registers `registers`:
\* its register and its index in the register
RECURSIVE FindBit(_, _)
FindBit(registers, n) ==
    IF n < registers[1].size THEN Bit(registers[1].name, n)
    ELSE FindBit(Tail(registers), n - registers[1].size)

\* build_indexidentifier that never reads _flat_reg (the mutant of
\* build_indexidentifier)
build_indexidentifier_never_flat(bit, flat) ==
    [id |-> bit.reg, idx |-> <<ToString(bit.index)>>]

\* build_indexidentifier: an IndexIdentifier2 node
build_indexidentifier(bit, flat) ==
    IF flat
    THEN [id |-> bit.reg \o "_" \o ToString(bit.index), idx |-> <<>>]
    ELSE [id |-> bit.reg, idx |-> <<ToString(bit.index)>>]

\* build_indexIdentifierlist
build_indexIdentifierlist(registers, indices, flat) ==
    [k \in 1..Len(indices) |-> build_indexidentifier(FindBit(registers, indices[k]), flat)]

\* build_quantumgatecall; ident is id(instruction[0])
build_quantumgatecall(nsv, i, ident, flat, ctx) ==
    [node |-> "QuantumGateCall",
     name |-> IF Obj(i).cls = "UGate" THEN "U" ELSE NamespaceGet(nsv, ident, Obj(i).name),
     args |-> build_indexIdentifierlist(ctx.q, Obj(i).qargs, flat),
     params |-> [k \in 1..Len(Obj(i).params) |-> PiCheck(Obj(i).params[k])]]

\* build_subroutinecall
build_subroutinecall(nsv, i, ident, flat, ctx) ==
    [node |-> "SubroutineCall",
     name |-> NamespaceGet(nsv, ident, Obj(i).name),
     args |-> build_indexIdentifierlist(ctx.q, Obj(i).qargs, flat),
     params |-> [k \in 1..Len(Obj(i).params) |-> FloatStr(Obj(i).params[k])]]

\* build_eqcondition.  Only a register has the attribute `name` the code
\* reads; a Clbit has a register and an index (see build_indexidentifier).
EqConditionRaises(cond) == cond.kind = "bit"

\* build_eqcondition with LtOperator in the place of EqualsOperator (the
\* mutant of build_eqcondition)
build_eqcondition_lt(cond) ==
    [left |-> cond.reg, relation |-> ">", right |-> ToString(cond.val)]

build_eqcondition(cond) ==
    [left |-> cond.reg, relation |-> "==", right |-> ToString(cond.val)]

Ok(stmts) == [err |-> "", stmts |-> stmts]
Failed(e) == [err |-> e, stmts |-> <<>>]

\* One iteration of the loop of build_quantuminstructions, for the
\* instruction object i with the condition cond and the id ident (those of i
\* itself, or None and CopyId for the copy made of a conditioned gate).
LowerInstruction(nsv, i, cond, ident, flat, ctx) ==
    LET o == Obj(i)
    IN  IF IsGate(o.cls)
        THEN IF cond.kind # "none"
             THEN IF EqConditionRaises(cond) THEN Failed("AttributeError")
                  ELSE Ok(<<[node |-> "BranchingStatement",
                             cond |-> build_eqcondition(cond),
                             \* build_programblock([(copy, qargs, cargs)]): the
                             \* copy is a gate without condition
                             programTrue |-> <<build_quantumgatecall(nsv, i, CopyId, flat, ctx)>>,
                             programFalse |-> <<>>]>>)
             ELSE Ok(<<build_quantumgatecall(nsv, i, ident, flat, ctx)>>)
        ELSE IF o.cls = "Barrier"
        THEN Ok(<<[node |-> "QuantumBarrier",
                   args |-> build_indexIdentifierlist(ctx.q, o.qargs, flat)]>>)
        ELSE IF o.cls = "Measure"
        THEN IF Len(o.cargs) = 0 THEN Failed("IndexError")
             ELSE Ok(<<[node |-> "QuantumMeasurementAssignment",
                        target |-> build_indexidentifier(FindBit(ctx.c, o.cargs[1]), flat),
                        args |-> build_indexIdentifierlist(ctx.q, o.qargs, flat)]>>)
        ELSE Ok(<<build_subroutinecall(nsv, i, ident, flat, ctx)>>)

\* The condition is cleared on instruction[0] itself (the mutant of
\* CopyTarget)
CopyTarget_original(i) == i

\* The object whose condition is set to None when a conditioned gate is
\* lowered: the copy of instruction[0]
CopyTarget(i) == CopyId

\* instruciton_without_condition.condition = None, on the attribute map cnd
ClearCondition(cnd, i) == [cnd EXCEPT ![CopyTarget(i)] = NoCond]

\* A result together with the attribute map the call leaves behind
Built(r, cnd) == [err |-> r.err, stmts |-> r.stmts, cond |-> cnd]

\* The value of the one element of a set: the expression is evaluated once
\* and the value is then used several times, as a local variable is
The(S) == CHOOSE x \in S : TRUE

\* The attribute map after the iteration for instruction i
AfterLowering(cnd, i) ==
    IF IsGate(Obj(i).cls) /\ cnd[i].kind # "none" THEN ClearCondition(cnd, i) ELSE cnd

\* A loop that puts the statement of each instruction before those of the
\* instructions before it (the mutant of Sequenced)
Sequenced_reversed(first, rest, cnd) ==
    IF first.err # "" THEN Built(first, cnd)
    ELSE IF rest.err # "" THEN rest
    ELSE Built(Ok(rest.stmts \o first.stmts), rest.cond)

\* The result of the loop from the result `first` of one iteration and the
\* result `rest` of the iterations after it
Sequenced(first, rest, cnd) ==
    IF first.err # "" THEN Built(first, cnd)
    ELSE IF rest.err # "" THEN rest
    ELSE Built(Ok(first.stmts \o rest.stmts), rest.cond)

\* build_quantuminstructions: the statements of instructions[k..], or the
\* first exception, and the conditions of the objects after the call
RECURSIVE build_quantuminstructions(_, _, _, _, _, _)
build_quantuminstructions(nsv, instructions, k, flat, ctx, cnd) ==
    IF k > Len(instructions) THEN Built(Ok(<<>>), cnd)
    ELSE The({Sequenced(first, rest, cnd) :
                 first \in {LowerInstruction(nsv, instructions[k], cnd[instructions[k]],
                                             instructions[k], flat, ctx)},
                 rest \in {build_quantuminstructions(nsv, instructions, k + 1, flat, ctx,
                                                     AfterLowering(cnd, instructions[k]))}})

\* the names of the qubits of a definition's registers, flattened
FlatQubits(i) ==
    [k \in 1..Obj(i).nq |-> DefQreg(Obj(i).nq).name \o "_" \o ToString(k - 1)]

\* build_opaquedefinition
build_opaquedefinition(nsv, i) ==
    Ok(<<[node |-> "CalibrationDefinition",
          name |-> NamespaceGet(nsv, i, Obj(i).name),
          qargs |-> [k \in 1..Obj(i).nq |-> "q_" \o ToString(k - 1)]]>>)

\* build_subroutinedefinition (under build_definition: _flat_reg is True)
build_subroutinedefinition(nsv, i, cnd) ==
    The({IF body.err # "" THEN body
         ELSE Built(Ok(<<[node |-> "SubroutineDefinition",
                          name |-> NamespaceGet(nsv, i, Obj(i).name),
                          qargs |-> FlatQubits(i),
                          body |-> Append(body.stmts, [node |-> "ReturnStatement"])]>>),
                    body.cond) :
            body \in {build_quantuminstructions(nsv, Obj(i).def.data, 1, TRUE, DefCtx(i),
                                                cnd)}})

\* quantumcircuit.parameters: the unbound parameters of the instructions of
\* the circuit, each once, sorted by name
CircuitParameters(data) ==
    SelectSeq(ParamNames,
              LAMBDA n : \E k \in 1..Len(data) :
                            \E m \in 1..Len(Obj(data[k]).params) :
                                Obj(data[k]).params[m].sym = n)

\* gate.definition.parameters: the free parameters of the body of a gate
DefinitionParameters(i) == CircuitParameters(Obj(i).def.data)

\* build_quantumGateSignature, the parameters: one dummy param_<num> for every
\* num in range(len(gate.params) - len(gate.definition.parameters)), then
\* the names of the free parameters of the definition
SignatureParams(i) ==
    [k \in 1..(Len(Obj(i).params) - Len(DefinitionParameters(i))) |->
        "param_" \o ToString(k - 1)]
    \o DefinitionParameters(i)

\* A gate definition built as a subroutine is built: its body ends with a
\* return statement (the mutant of build_quantumgatedefinition)
build_quantumgatedefinition_with_return(nsv, i, cnd) ==
    The({IF body.err # "" THEN body
         ELSE Built(Ok(<<[node |-> "QuantumGateDefinition",
                          name |-> NamespaceGet(nsv, i, Obj(i).name),
                          params |-> SignatureParams(i),
                          qargs |-> FlatQubits(i),
                          body |-> Append(body.stmts, [node |-> "ReturnStatement"])]>>),
                    body.cond) :
            body \in {build_quantuminstructions(nsv, Obj(i).def.data, 1, TRUE, DefCtx(i),
                                                cnd)}})

\* build_quantumgatedefinition (under build_definition: _flat_reg is True)
build_quantumgatedefinition(nsv, i, cnd) ==
    The({IF body.err # "" THEN body
         ELSE Built(Ok(<<[node |-> "QuantumGateDefinition",
                          name |-> NamespaceGet(nsv, i, Obj(i).name),
                          params |-> SignatureParams(i),
                          qargs |-> FlatQubits(i),
                          body |-> body.stmts]>>),
                    body.cond) :
            body \in {build_quantuminstructions(nsv, Obj(i).def.data, 1, TRUE, DefCtx(i),
                                                cnd)}})

\* The instructions build_definitions iterates over, in its order
DeclOrder(opaque, subs, gates) == opaque \o subs \o gates

\* build_bitdeclarations and build_quantumdeclarations: one declaration per
\* register, in the order of the circuit's lists
\* build_bitdeclarations that walks the registers from the last to the first
\* (the mutant of build_bitdeclarations)
build_bitdeclarations_reversed(cregs) ==
    [k \in 1..Len(cregs) |->
        [node |-> "BitDeclaration", name |-> cregs[Len(cregs) + 1 - k].name,
         size |-> ToString(cregs[Len(cregs) + 1 - k].size)]]

build_bitdeclarations(cregs) ==
    [k \in 1..Len(cregs) |->
        [node |-> "BitDeclaration", name |-> cregs[k].name, size |-> ToString(cregs[k].size)]]

build_quantumdeclarations(qregs) ==
    [k \in 1..Len(qregs) |->
        [node |-> "QuantumDeclaration", name |-> qregs[k].name,
         size |-> ToString(qregs[k].size)]]

\* build_inputs: one Input node per unbound parameter
build_inputs(data) ==
    LET ps == CircuitParameters(data)
    IN  [k \in 1..Len(ps) |-> [node |-> "Input", type |-> "float[32]", name |-> ps[k]]]

\* build_globalstatements that adds the inputs after the register
\* declarations (the mutant of GlobalOrder)
GlobalOrder_inputs_after_declarations(definitions, inputs, bitdeclarations, quantumdeclarations, quantuminstructions) ==
    definitions \o bitdeclarations \o quantumdeclarations \o inputs \o quantuminstructions

\* The order in which build_globalstatements concatenates its five parts
GlobalOrder(definitions, inputs, bitdeclarations, quantumdeclarations, quantuminstructions) ==
    definitions \o inputs \o bitdeclarations \o quantumdeclarations \o quantuminstructions

\* build_globalstatements, given the definitions already built and the value
\* `flat` of _flat_reg
build_globalstatements(nsv, definitions, data, registers, cnd, flat) ==
    The({IF quantuminstructions.err # "" THEN quantuminstructions
         ELSE Built(Ok(GlobalOrder(definitions, build_inputs(data),
                                   build_bitdeclarations(registers.c),
                                   build_quantumdeclarations(registers.q),
                                   quantuminstructions.stmts)),
                    quantuminstructions.cond) :
            quantuminstructions \in
                {build_quantuminstructions(nsv, data, 1, flat, TopCtx, cnd)}})

----------------------------------------------------------------------------
(* grammar.py: qasm() of the nodes, as the sequence of the strings of the  *)
(* tree it returns                                                          *)

IndexIdentifierQasm(x) ==
    IF Len(x.idx) > 0 THEN x.id \o "[" \o Join(x.idx, ", ") \o "]" ELSE x.id

IdListQasm(xs) == Join([k \in 1..Len(xs) |-> IndexIdentifierQasm(xs[k])], ", ")

QuantumGateCallQasm(st) ==
    IF Len(st.params) > 0
    THEN <<st.name \o "(" \o Join(st.params, ", ") \o ") " \o IdListQasm(st.args) \o ";\n">>
    ELSE <<st.name \o " " \o IdListQasm(st.args) \o ";\n">>

SubroutineCallQasm(st) ==
    IF Len(st.params) > 0
    THEN <<st.name \o " (" \o Join(st.params, ", ") \o ") " \o IdListQasm(st.args) \o ";\n">>
    ELSE <<st.name \o " " \o IdListQasm(st.args) \o ";\n">>

RECURSIVE StatementQasm(_)
RECURSIVE BlockQasm(_)

\* ProgramBlock.qasm
BlockQasm(stmts) ==
    IF Len(stmts) = 0 THEN <<>>
    ELSE StatementQasm(stmts[1]) \o BlockQasm(Tail(stmts))

StatementQasm(st) ==
    CASE st.node = "QuantumGateCall" -> QuantumGateCallQasm(st)
      [] st.node = "SubroutineCall" -> SubroutineCallQasm(st)
      [] st.node = "QuantumBarrier" -> <<"barrier " \o IdListQasm(st.args) \o ";\n">>
      [] st.node = "QuantumMeasurementAssignment" ->
            <<IndexIdentifierQasm(st.target) \o " = " \o "measure "
              \o IdListQasm(st.args) \o ";\n">>
      [] st.node = "BranchingStatement" ->
            <<"if (" \o st.cond.left \o " " \o st.cond.relation \o " " \o st.cond.right \o ")">>
            \o <<"{\n">> \o BlockQasm(st.programTrue) \o <<"}\n">>
            \o (IF Len(st.programFalse) > 0
                THEN <<"else">> \o <<"{\n">> \o BlockQasm(st.programFalse) \o <<"}\n">>
                ELSE <<>>)
      [] st.node = "ReturnStatement" -> <<"return;\n">>
      [] st.node = "CalibrationDefinition" ->
            <<"defcal " \o st.name \o " " \o Join(st.qargs, ", ") \o " ", "{}", "\n">>
      [] st.node = "SubroutineDefinition" ->
            (IF Len(st.qargs) > 0
             THEN <<"def " \o st.name \o " "
                    \o Join([k \in 1..Len(st.qargs) |-> "qubit " \o st.qargs[k]], ", ")
                    \o " ">>
             ELSE <<"def " \o st.name \o " ">>)
            \o <<"{\n">> \o BlockQasm(st.body) \o <<"}\n">>
      [] st.node = "QuantumGateDefinition" ->
            <<"gate "
              \o (IF Len(st.params) > 0
                  THEN st.name \o "(" \o Join(st.params, ", ") \o ") " \o Join(st.qargs, ", ")
                  ELSE st.name \o " " \o Join(st.qargs, ", "))
              \o " ">>
            \o <<"{\n">> \o BlockQasm(st.body) \o <<"}\n">>
      [] st.node = "Input" -> <<"input " \o st.type \o " " \o st.name \o ";\n">>
      [] st.node = "BitDeclaration" -> <<"bit[" \o st.size \o "] " \o st.name \o ";\n">>
      [] st.node = "QuantumDeclaration" -> <<"qubit[" \o st.size \o "] " \o st.name \o ";\n">>

\* Header.qasm: the version, then one Include per filename
HeaderQasm(includes) ==
    <<"OPENQASM 3;\n">> \o [k \in 1..Len(includes) |-> "include " \o includes[k] \o ";\n"]

\* Program.qasm
ProgramQasm(p) == HeaderQasm(p.includes) \o BlockQasm(p.statements)

\* Exporter.flatten_tree
RECURSIVE flatten_tree(_)
flatten_tree(tree) ==
    IF Len(tree) = 0 THEN "" ELSE tree[1] \o flatten_tree(Tail(tree))

----------------------------------------------------------------------------
(* build_program after hoisting *)

Decls == DeclOrder(opaqueDecl, subDecl, gateDecl)

\* build_definition(instruction, builder) with the builder of the loop of
\* build_definitions the instruction i is in
build_definition(nsv, i, cnd) ==
    IF Len(defs) < Len(opaqueDecl)
    THEN Built(build_opaquedefinition(nsv, i), cnd)
    ELSE IF Len(defs) < Len(opaqueDecl) + Len(subDecl)
    THEN build_subroutinedefinition(nsv, i, cnd)
    ELSE build_quantumgatedefinition(nsv, i, cnd)

\* build_definition: one iteration of the loops of build_definitions
BuildDefinition ==
    /\ phase = "defs"
    /\ Len(defs) < Len(Decls)
    /\ \E built \in {build_definition(ns, Decls[Len(defs) + 1], condition)} :
           /\ condition' = built.cond
           /\ IF built.err # ""
              THEN /\ Raise(built.err)
                   /\ flatReg' = TRUE
                   /\ UNCHANGED defs
              ELSE /\ defs' = defs \o built.stmts
                   /\ flatReg' = FALSE
                   /\ UNCHANGED <<phase, err>>
    /\ UNCHANGED <<circuit, includesArg, expIncludes, fwd, bwd, gateDecl, subDecl,
                   opaqueDecl, stack, prog, text, api, stream, run, prev, regs>>

\* the rest of build_globalstatements, Program(...).qasm() and flatten_tree
BuildGlobals ==
    /\ phase = "defs"
    /\ Len(defs) = Len(Decls)
    /\ \E built \in {build_globalstatements(ns, defs, circuit, regs, condition, flatReg)} :
           /\ condition' = built.cond
           /\ IF built.err # ""
              THEN /\ Raise(built.err)
                   /\ UNCHANGED <<prog, text>>
              ELSE /\ prog' = [includes |-> expIncludes.val, statements |-> built.stmts]
                   /\ text' = flatten_tree(ProgramQasm(prog'))
                   /\ phase' = "done"
                   /\ err' = ""
    /\ UNCHANGED <<circuit, includesArg, expIncludes, fwd, bwd, gateDecl, subDecl,
                   opaqueDecl, flatReg, stack, defs, api, stream, run, prev, regs>>

----------------------------------------------------------------------------
(* What the claims speak about *)

Range(f) == {f[k] : k \in DOMAIN f}

\* The instruction objects of a circuit: those of its instruction list and,
\* recursively, of their definitions
RECURSIVE Closure(_)
Closure(S) ==
    LET T == S \cup UNION {Range(Obj(i).def.data) : i \in S}
    IN  IF T = S THEN S ELSE Closure(T)

Reachable == Closure(Range(circuit))

\* a user-defined instruction: type(instruction) in [Gate, Instruction]
IsCustom(i) == Obj(i).cls \in {"Gate", "Instruction"}

\* a gate of the standard vocabulary, the universal gate, a barrier or a
\* measurement
IsStandard(i) ==
    \/ Obj(i).cls = "UGate"
    \/ Obj(i).cls \in builtins
    \/ \E k \in 1..Len(qiskit_gates) : qiskit_gates[k] = <<Obj(i).name, Obj(i).cls>>

StandardNames == {qiskit_gates[k][1] : k \in 1..Len(qiskit_gates)}

IsDefinition(st) ==
    st.node \in {"CalibrationDefinition", "SubroutineDefinition", "QuantumGateDefinition"}

\* the positions of the definition blocks in the program
BlockPositions == {p \in 1..Len(prog.statements) : IsDefinition(prog.statements[p])}

\* the statement of the k-th instruction of the circuit
TopStatement(k) == prog.statements[Len(prog.statements) - Len(circuit) + k]

\* the name a call statement calls (the call inside, for an if statement)
CallName(st) ==
    IF st.node = "BranchingStatement" THEN st.programTrue[1].name ELSE st.name

\* the position in the program of the block of a hoisted instruction
BlockOf(i) == CHOOSE j \in 1..Len(Decls) : Decls[j] = i

Hoisted == Range(Decls)

----------------------------------------------------------------------------
(* C1 *)

\* C1: in the exported text the definition block of every called non-builtin
\* instruction comes before the call: before every top-level call, and, for
\* a call inside the body of another block, before that block.
C1_DefinitionBeforeUse ==
    phase = "done" =>
        /\ \A k \in 1..Len(circuit) :
              circuit[k] \in Hoisted =>
                  BlockOf(circuit[k]) < Len(prog.statements) - Len(circuit) + k
        /\ \A j \in 1..Len(Decls) :
              \A m \in 1..Len(Obj(Decls[j]).def.data) :
                  Obj(Decls[j]).def.data[m] \in Hoisted =>
                      BlockOf(Obj(Decls[j]).def.data[m]) < j

----------------------------------------------------------------------------
(* C2 *)

\* C2: every distinct composite user-defined instruction of the circuit has
\* exactly one definition block in the output.
C2_OneBlockPerInstruction ==
    phase = "done" =>
        \A i \in Reachable :
            (IsCustom(i) /\ ~Obj(i).def.none) =>
                Cardinality({j \in 1..Len(Decls) : Decls[j] = i}) = 1

----------------------------------------------------------------------------
(* C3 *)

\* C3: no two definition blocks of an export carry the same name.
C3_UniqueBlockNames ==
    phase = "done" =>
        \A p, q \in BlockPositions :
            p # q => prog.statements[p].name # prog.statements[q].name

----------------------------------------------------------------------------
(* C4 *)

\* C4: of the distinct user-defined instructions that share a name, the one
\* registered first is bound to the name and every other one is bound to
\* name_<its id> and has a definition block of its own.
C4_LaterInstructionsSuffixed ==
    phase = "done" =>
        \A i, j \in Reachable :
            (/\ IsCustom(i) /\ IsCustom(j) /\ i # j
             /\ Obj(i).name = Obj(j).name
             /\ Obj(i).name \in DOMAIN fwd
             /\ fwd[Obj(i).name] = InstVal(i)) =>
                /\ j \in DOMAIN bwd
                /\ bwd[j] = SuffixedName(j)
                /\ j \in Hoisted

----------------------------------------------------------------------------
(* C5 *)

\* C5: with the standard vocabulary seeded, a custom gate that has the name
\* of a standard gate is bound to name_<id>, is defined by a block of that
\* name and is called by that name.
C5_StdlibCollision ==
    (phase = "done" /\ includesArg = NoneArg) =>
        \A k \in 1..Len(circuit) :
            (IsCustom(circuit[k]) /\ Obj(circuit[k]).name \in StandardNames) =>
                /\ circuit[k] \in DOMAIN bwd
                /\ bwd[circuit[k]] = SuffixedName(circuit[k])
                /\ circuit[k] \in Hoisted
                /\ prog.statements[BlockOf(circuit[k])].name = SuffixedName(circuit[k])
                /\ CallName(TopStatement(k)) = SuffixedName(circuit[k])
                \* the standard gates of its body: plain name, no definition
                /\ \A m \in 1..Len(Obj(circuit[k]).def.data) :
                      LET g == Obj(circuit[k]).def.data[m]
                      IN  IsStandard(g) =>
                              /\ g \notin Hoisted
                              /\ prog.statements[BlockOf(circuit[k])].body[m].name
                                     = Obj(g).name

----------------------------------------------------------------------------
(* C6 *)

\* C6: every call of a registered instruction, also the call inside the if
\* block of a conditioned instruction, uses the name of the instruction's
\* definition block.
C6_CallUsesBlockName ==
    phase = "done" =>
        /\ \A k \in 1..Len(circuit) :
              circuit[k] \in Hoisted =>
                  CallName(TopStatement(k)) = prog.statements[BlockOf(circuit[k])].name
        /\ \A j \in 1..Len(Decls) :
              \A m \in 1..Len(Obj(Decls[j]).def.data) :
                  LET g == Obj(Decls[j]).def.data[m]
                  IN  g \in Hoisted =>
                          CallName(prog.statements[j].body[m])
                              = prog.statements[BlockOf(g)].name

----------------------------------------------------------------------------
(* C7 *)

\* C7: with the default include list, a circuit of standard gates, universal
\* gates, barriers and measurements hoists nothing: the three declaration
\* lists stay empty and the program has no definition block.
C7_BuiltinSuppression ==
    (includesArg = NoneArg /\ \A k \in 1..Len(circuit) : IsStandard(circuit[k])) =>
        /\ gateDecl = <<>>
        /\ subDecl = <<>>
        /\ opaqueDecl = <<>>
        /\ phase = "done" => BlockPositions = {}

C7_Witness ==
    /\ phase = "done"
    /\ includesArg = NoneArg
    /\ circuit = <<H, CX>>
    /\ Decls = <<>>

----------------------------------------------------------------------------
(* C8 *)

\* C8: a gate with a condition on (register r, value v) becomes one if
\* statement: `if (r == v)`, `{`, the call of the gate, `}`, with no else
\* branch.
C8_ConditionalLowering ==
    phase = "done" =>
        /\ \A k \in 1..Len(circuit) :
              (IsGate(Obj(circuit[k]).cls) /\ Obj(circuit[k]).cond.kind = "reg") =>
                  LET st == TopStatement(k)
                      c == Obj(circuit[k]).cond
                      lines == StatementQasm(st)
                  IN  /\ st.node = "BranchingStatement"
                      /\ Len(st.programTrue) = 1
                      /\ st.programTrue[1].node = "QuantumGateCall"
                      /\ st.programFalse = <<>>
                      /\ Len(lines) = 4
                      /\ lines[1] = "if (" \o c.reg \o " == " \o ToString(c.val) \o ")"
                      /\ lines[2] = "{\n"
                      /\ <<lines[3]>> = QuantumGateCallQasm(st.programTrue[1])
                      /\ lines[4] = "}\n"
        /\ (circuit = <<HC>> /\ includesArg = NoneArg
              /\ regs = [q |-> <<CircQreg>>, c |-> <<CircCreg>>]) =>
              text = "OPENQASM 3;\ninclude stdgates.inc;\nbit[2] cr;\nqubit[2] qr;\n"
                     \o "if (cr == 2){\nh qr[1];\n}\n"

C8_Witness ==
    /\ phase = "done"
    /\ circuit = <<MEAS, HC>>
    /\ TopStatement(2).node = "BranchingStatement"

----------------------------------------------------------------------------
(* C9 *)

\* C9: a gate with a condition on a single classical bit c[i] is exported
\* like one with a condition on a register: the export succeeds and the
\* statement is `if (c[i] == v)` and the block.
C9_BitCondition ==
    (/\ api = "Exporter.dumps"
     /\ includesArg = NoneArg
     /\ \A k \in 1..Len(circuit) : IsStandard(circuit[k])) =>
        /\ phase # "error"
        /\ phase = "done" =>
              \A k \in 1..Len(circuit) :
                  Obj(circuit[k]).cond.kind = "bit" =>
                      StatementQasm(TopStatement(k))[1] =
                          "if (" \o Obj(circuit[k]).cond.reg \o "["
                          \o ToString(Obj(circuit[k]).cond.index) \o "] == "
                          \o ToString(Obj(circuit[k]).cond.val) \o ")"

----------------------------------------------------------------------------
(* C10 *)

\* the filenames an `includes` argument asks for
Requested(arg) ==
    IF arg.kind = "None" THEN <<"stdgates.inc">>
    ELSE IF arg.kind = "str" THEN <<arg.str>>
    ELSE arg.list

\* C10: for every `includes` argument (omitted, a string, a list, the empty
\* list) the export of a circuit succeeds and its output starts with the
\* version line and one include line per requested filename, in order.
C10_HeaderForEveryConfiguration ==
    (api = "Exporter.dumps" /\ Len(circuit) = 0) =>
        /\ phase # "error"
        /\ phase = "done" =>
              LET lines == ProgramQasm(prog)
                  req == Requested(includesArg)
              IN  /\ Len(lines) >= 1 + Len(req)
                  /\ lines[1] = "OPENQASM 3;\n"
                  /\ \A k \in 1..Len(req) :
                        lines[1 + k] = "include " \o req[k] \o ";\n"
                  /\ \A k \in (Len(req) + 2)..Len(lines) :
                        lines[k] \notin {"include " \o f \o ";\n" :
                                          f \in {"stdgates.inc", "other.inc"}}

----------------------------------------------------------------------------
(* C11 *)

\* C11: a call of the module function dumps(circuit) does not end in an
\* error; it completes with the text Exporter(circuit).dumps() returns,
\* which is never empty.
C11_ModuleDumps ==
    api = "qasm3.dumps" =>
        /\ phase # "error"
        /\ phase = "done" => text = flatten_tree(ProgramQasm(prog)) /\ text # ""

----------------------------------------------------------------------------
(* C12 *)

\* C12: a call of Exporter(circuit).dump(stream) or of the module function
\* dump(circuit, stream) does not end in an error, and when it has completed
\* the stream holds the text of the export.
C12_DumpWritesStream ==
    api \in {"Exporter.dump", "qasm3.dump"} =>
        /\ phase # "error"
        /\ phase = "done" => stream = flatten_tree(ProgramQasm(prog)) /\ stream # ""

----------------------------------------------------------------------------
(* C13 *)

\* C13: by default the parameters 2*pi, 3*pi and -5*pi are rendered
\* symbolically, and an Exporter constructed with disable_constants (True
\* or False) exports as well instead of failing.
C13_ConstantFoldingToggle ==
    /\ phase = "done" =>
          \A k \in 1..Len(circuit) :
              circuit[k] = U =>
                  StatementQasm(TopStatement(k)) = <<"U(2*pi, 3*pi, -5*pi) qr[0];\n">>
    /\ api \in {"Exporter(disable_constants=True)", "Exporter(disable_constants=False)"} =>
          phase # "error"

----------------------------------------------------------------------------
(* C14 *)

\* the statements of the program with the node kind `kind`, in their order
StatementsOf(kind) == SelectSeq(prog.statements, LAMBDA st : st.node = kind)

\* the position of the first statement of the circuit's own instructions
\* (one past the end when the circuit is empty)
FirstInstruction == Len(prog.statements) - Len(circuit) + 1

PositionsOf(kinds) == {p \in 1..Len(prog.statements) : prog.statements[p].node \in kinds}

\* C14: the program has one `bit[size] name;` per classical register and one
\* `qubit[size] name;` per quantum register, in the order of registration,
\* all of them before the first statement of the circuit's instructions.
C14_RegisterDeclarations ==
    phase = "done" =>
        /\ Len(StatementsOf("BitDeclaration")) = Len(regs.c)
        /\ \A k \in 1..Len(regs.c) :
              StatementQasm(StatementsOf("BitDeclaration")[k]) =
                  <<"bit[" \o ToString(regs.c[k].size) \o "] " \o regs.c[k].name \o ";\n">>
        /\ Len(StatementsOf("QuantumDeclaration")) = Len(regs.q)
        /\ \A k \in 1..Len(regs.q) :
              StatementQasm(StatementsOf("QuantumDeclaration")[k]) =
                  <<"qubit[" \o ToString(regs.q[k].size) \o "] " \o regs.q[k].name \o ";\n">>
        /\ \A p \in PositionsOf({"BitDeclaration", "QuantumDeclaration"}) :
              p < FirstInstruction

C14_Witness ==
    /\ phase = "done"
    /\ Len(regs.c) = 2
    /\ Len(regs.q) = 2
    /\ circuit = <<MEAS, HC>>

----------------------------------------------------------------------------
(* C15 *)

DefinitionKinds == {"CalibrationDefinition", "SubroutineDefinition", "QuantumGateDefinition"}

\* every unbound parameter of the circuit has exactly one input line
\* `input float[32] name;`, and there is no other input line
OneInputPerParameter ==
    /\ Len(StatementsOf("Input")) = Len(CircuitParameters(circuit))
    /\ \A n \in Range(CircuitParameters(circuit)) :
          Cardinality({k \in 1..Len(StatementsOf("Input")) :
                         StatementQasm(StatementsOf("Input")[k]) =
                             <<"input float[32] " \o n \o ";\n">>}) = 1

\* C15, as stated: every unbound parameter is declared once as
\* `input float[32] name;`, after the definitions and after the register
\* declarations, before the first instruction statement.
C15_InputsAfterDeclarations ==
    phase = "done" =>
        /\ OneInputPerParameter
        /\ \A p \in PositionsOf({"Input"}) :
              /\ \A d \in PositionsOf(DefinitionKinds) : d < p
              /\ \A d \in PositionsOf({"BitDeclaration", "QuantumDeclaration"}) : d < p
              /\ p < FirstInstruction

\* C15, amended: every unbound parameter is declared once as
\* `input float[32] name;`; the input lines come after every definition
\* block (so after the body of a block that uses the parameter) and BEFORE
\* the register declarations, hence before the first top-level instruction
\* statement.
C15_InputsBeforeDeclarations ==
    phase = "done" =>
        /\ OneInputPerParameter
        /\ \A p \in PositionsOf({"Input"}) :
              /\ \A d \in PositionsOf(DefinitionKinds) : d < p
              /\ \A d \in PositionsOf({"BitDeclaration", "QuantumDeclaration"}) : p < d
              /\ p < FirstInstruction
        /\ (circuit = <<ST>> /\ includesArg = NoneArg
              /\ regs = [q |-> <<CircQreg>>, c |-> <<CircCreg>>]) =>
              text = "OPENQASM 3;\ninclude stdgates.inc;\n"
                     \o "def sub_t qubit q_0, qubit q_1 {\nU(theta, phi, 0) q_1;\nreturn;\n}\n"
                     \o "input float[32] phi;\ninput float[32] theta;\n"
                     \o "bit[2] cr;\nqubit[2] qr;\n"
                     \o "sub_t (theta, phi) qr[0], qr[1];\n"

\* a block without formal parameters whose body uses both parameters stands
\* before the two input lines, and these before the declarations and the call
C15_Witness ==
    /\ phase = "done"
    /\ circuit = <<ST>>
    /\ prog.statements[1].node = "SubroutineDefinition"
    /\ StatementQasm(prog.statements[1].body[1]) = <<"U(theta, phi, 0) q_1;\n">>
    /\ PositionsOf({"Input"}) = {2, 3}
    /\ PositionsOf({"BitDeclaration", "QuantumDeclaration"}) = {4, 5}
    /\ FirstInstruction = 6

----------------------------------------------------------------------------
(* C16 *)

\* C16: a second dumps() on the same circuit with the same configuration ends
\* as the first did, with the same text or the same exception; and every
\* export starts to hoist with a namespace that holds the seeded vocabulary
\* only and with empty declaration lists.
C16_Determinism ==
    /\ (run = 2 /\ phase \in {"done", "error"}) =>
          prev = [phase |-> phase, err |-> err, text |-> text]
    /\ (phase = "hoist" /\ Len(stack) = 1 /\ Top.i = 1) =>
          /\ ns = NamespaceInit([fwd |-> EmptyDict, bwd |-> EmptyDict], expIncludes.val, 1)
          /\ Decls = <<>>
          /\ flatReg = FALSE

C16_Witness ==
    /\ run = 2
    /\ phase = "done"
    /\ circuit = <<G1, G2>>
    /\ prev.text = text
    /\ G2 \in DOMAIN bwd
    /\ bwd[G2] = SuffixedName(G2)

----------------------------------------------------------------------------
(* C17 *)

\* C17: no step of an export changes the circuit: its instruction list stays
\* what it was, and so does the condition of every instruction object of
\* the circuit and of the definitions (a condition is cleared on a copy).
C17_CircuitIsReadOnly ==
    [][/\ circuit' = circuit
       /\ regs' = regs
       /\ \A i \in ObjIds : condition'[i] = condition[i]]_vars

C17_Witness ==
    /\ phase = "done"
    /\ circuit = <<GCXC, HC>>
    /\ condition[GCXC] = RegCond("cr", 1)
    /\ condition[HC] = RegCond("cr", 2)
    /\ TopStatement(1).node = "BranchingStatement"

----------------------------------------------------------------------------
(* C18 *)

\* C18: a measurement with one classical target becomes `c = measure q;`,
\* and an export of a circuit that holds a measurement with another number
\* of classical targets never completes.
C18_MeasureOneTarget ==
    api = "Exporter.dumps" =>
        /\ phase = "done" =>
              \A k \in 1..Len(circuit) :
                  circuit[k] = MEAS =>
                      StatementQasm(TopStatement(k)) = <<"cr[0] = measure qr[0];\n">>
        /\ (\E k \in 1..Len(circuit) :
               Obj(circuit[k]).cls = "Measure" /\ Len(Obj(circuit[k]).cargs) # 1) =>
              phase # "done"

----------------------------------------------------------------------------
(* C19 *)

\* the kinds the builder knows: gates, composite instructions, barriers and
\* measurements
IsKnownKind(i) ==
    \/ IsGate(Obj(i).cls)
    \/ Obj(i).cls \in builtins
    \/ (Obj(i).cls = "Instruction" /\ ~Obj(i).def.none)

\* C19: an export of a circuit that holds an instruction of no known kind
\* never completes, so no statement is emitted for such an instruction.
C19_UnknownKindIsError ==
    (\E k \in 1..Len(circuit) : ~IsKnownKind(circuit[k])) => phase # "done"

----------------------------------------------------------------------------
(* C20 *)

\* C20: every hoisted instruction is in exactly one of the three declaration
\* lists, once, and its block has the form of its kind: `gate` without
\* return for a composite gate, `def` ending in `return;` for any other
\* composite, `defcal` for an instruction without body.
C20_EmittedByKind ==
    /\ \A a, b \in {gateDecl, subDecl, opaqueDecl} :
          /\ a # b => Range(a) \cap Range(b) = {}
          /\ \A j, k \in 1..Len(a) : a[j] = a[k] => j = k
    /\ phase = "done" =>
          /\ \A j \in 1..Len(Decls) :
                LET i == Decls[j]
                    st == prog.statements[j]
                    lines == StatementQasm(st)
                IN  IF Obj(i).def.none
                    THEN /\ st.node = "CalibrationDefinition"
                         /\ lines = <<"defcal " \o st.name \o " "
                                        \o Join(st.qargs, ", ") \o " ", "{}", "\n">>
                    ELSE IF IsGate(Obj(i).cls)
                    THEN /\ st.node = "QuantumGateDefinition"
                         /\ "return;\n" \notin Range(lines)
                         /\ Len(lines) = Len(Obj(i).def.data) + 3
                         /\ lines[2] = "{\n"
                         /\ lines[Len(lines)] = "}\n"
                    ELSE /\ st.node = "SubroutineDefinition"
                         /\ Len(lines) = Len(Obj(i).def.data) + 4
                         /\ lines[2] = "{\n"
                         /\ lines[Len(lines) - 1] = "return;\n"
                         /\ lines[Len(lines)] = "}\n"
          /\ (circuit = <<SG>> /\ includesArg = NoneArg /\ api = "Exporter.dumps"
                /\ regs = [q |-> <<CircQreg>>, c |-> <<CircCreg>>]) =>
                text = "OPENQASM 3;\ninclude stdgates.inc;\n"
                       \o "def my_gate qubit q_0 {\nh q_0;\nreturn;\n}\n"
                       \o "def sub qubit q_0, qubit q_1 {\nmy_gate q_0;\n"
                       \o "my_gate_9 q_0, q_1;\nreturn;\n}\n"
                       \o "gate my_gate_9 q_0, q_1 {\nh q_0;\n}\n"
                       \o "bit[2] cr;\nqubit[2] qr;\nsub qr[0], qr[1];\n"
          /\ (circuit = <<S1>> /\ includesArg = NoneArg /\ api = "Exporter.dumps"
                /\ regs = [q |-> <<CircQreg>>, c |-> <<CircCreg>>]) =>
                text = "OPENQASM 3;\ninclude stdgates.inc;\n"
                       \o "def composite_circ qubit q_0, qubit q_1 {\nh q_0;\nx q_1;\n"
                       \o "cx q_0, q_1;\nreturn;\n}\n"
                       \o "bit[2] cr;\nqubit[2] qr;\ncomposite_circ qr[0], qr[1];\n"

C20_Witness ==
    /\ phase = "done"
    /\ circuit = <<SG, OPQ>>
    /\ Len(opaqueDecl) = 1
    /\ Len(subDecl) = 2
    /\ Len(gateDecl) = 1

----------------------------------------------------------------------------
(* C21 *)

\* the call a statement makes: the call inside, for an if statement
CallOf(st) == IF st.node = "BranchingStatement" THEN st.programTrue[1] ELSE st

\* the number of parameters of a gate that are bound to a value
BoundCount(i) ==
    Cardinality({m \in 1..Len(Obj(i).params) : Obj(i).params[m].sym = ""})

\* what C21 says of the block `block` of the gate i and of one call of it
SignatureMatchesCall(i, block, call) ==
    /\ Len(block.params) = Len(call.params)
    /\ block.params =
          [k \in 1..BoundCount(i) |-> "param_" \o ToString(k - 1)]
          \o DefinitionParameters(i)
    /\ IF Len(Obj(i).params) = 0
       THEN /\ StatementQasm(block)[1] =
                   "gate " \o block.name \o " " \o Join(block.qargs, ", ") \o " "
            /\ StatementQasm(call) =
                   <<call.name \o " " \o IdListQasm(call.args) \o ";\n">>
       ELSE /\ StatementQasm(block)[1] =
                   "gate " \o block.name \o "(" \o Join(block.params, ", ") \o ") "
                   \o Join(block.qargs, ", ") \o " "
            /\ StatementQasm(call) =
                   <<call.name \o "(" \o Join(call.params, ", ") \o ") "
                     \o IdListQasm(call.args) \o ";\n">>

\* C21: the `gate` block of a gate declares as many formal parameters as
\* every call of the gate passes: param_0.. for its bound parameters, then
\* the free parameters of its definition; without parameters neither the
\* signature nor a call has a parenthesised list.
C21_SignatureMatchesCalls ==
    phase = "done" =>
        /\ \A k \in 1..Len(circuit) :
              (circuit[k] \in Range(gateDecl)) =>
                  SignatureMatchesCall(circuit[k], prog.statements[BlockOf(circuit[k])],
                                       CallOf(TopStatement(k)))
        /\ \A j \in 1..Len(Decls) :
              \A m \in 1..Len(Obj(Decls[j]).def.data) :
                  LET g == Obj(Decls[j]).def.data[m]
                  IN  g \in Range(gateDecl) =>
                          SignatureMatchesCall(g, prog.statements[BlockOf(g)],
                                               CallOf(prog.statements[j].body[m]))
        /\ (circuit = <<GT>> /\ includesArg = NoneArg
              /\ regs = [q |-> <<CircQreg>>, c |-> <<CircCreg>>]) =>
              text = "OPENQASM 3;\ninclude stdgates.inc;\n"
                     \o "gate rot(param_0, phi, theta) q_0, q_1 {\nU(theta, phi, 0) q_1;\n}\n"
                     \o "input float[32] phi;\ninput float[32] theta;\n"
                     \o "bit[2] cr;\nqubit[2] qr;\n"
                     \o "rot(pi, phi, theta) qr[0], qr[1];\n"

----------------------------------------------------------------------------
(* C22 *)

\* the gate call with the name and the qubit operands of the call `st` of
\* the instruction i, its parameters formatted as build_quantumgatecall
\* formats them
AsGateCall(st, i) ==
    [node |-> "QuantumGateCall", name |-> st.name, args |-> st.args,
     params |-> [m \in 1..Len(Obj(i).params) |-> PiCheck(Obj(i).params[m])]]

\* C22: a subroutine call has the text the gate call of the same name,
\* parameters and qubit operands has: `name(params) qargs;` with parameters,
\* `name qargs;` without, the parameters formatted by the same formatter.
C22_SubroutineCallLikeGateCall ==
    phase = "done" =>
        \A k \in 1..Len(circuit) :
            TopStatement(k).node = "SubroutineCall" =>
                StatementQasm(TopStatement(k)) =
                    QuantumGateCallQasm(AsGateCall(TopStatement(k), circuit[k]))

----------------------------------------------------------------------------
(* C23 *)

\* a library gate (a subclass of Gate other than UGate) whose name is not in
\* the standard vocabulary
IsNonVocabularyLibrary(i) ==
    /\ IsGate(Obj(i).cls)
    /\ Obj(i).cls \notin {"Gate", "UGate"}
    /\ Obj(i).name \notin StandardNames

\* C23: with the default include list, a circuit of standard gates and of
\* library gates whose name is not in the vocabulary (cx_o0) is exported for
\* any number of occurrences of such a gate, with exactly one `gate` block
\* for the name, its body calling the standard gates by their plain names.
C23_NonVocabularyLibraryGate ==
    (/\ api = "Exporter.dumps"
     /\ includesArg = NoneArg
     /\ \A k \in 1..Len(circuit) :
           (IsStandard(circuit[k]) /\ Obj(circuit[k]).cond.kind = "none"
              /\ Obj(circuit[k]).nc <= 1)
           \/ IsNonVocabularyLibrary(circuit[k])
     /\ \E k \in 1..Len(circuit) : IsNonVocabularyLibrary(circuit[k])) =>
        /\ phase # "error"
        /\ phase = "done" =>
              \A k \in 1..Len(circuit) :
                  IsNonVocabularyLibrary(circuit[k]) =>
                      LET blocks == {p \in BlockPositions :
                                        prog.statements[p].name = Obj(circuit[k]).name}
                      IN  /\ Cardinality(blocks) = 1
                          /\ \A p \in blocks :
                                /\ prog.statements[p].node = "QuantumGateDefinition"
                                /\ \A m \in 1..Len(Obj(circuit[k]).def.data) :
                                      prog.statements[p].body[m].name
                                          = Obj(Obj(circuit[k]).def.data[m]).name
                          /\ CallName(TopStatement(k)) = Obj(circuit[k]).name

----------------------------------------------------------------------------
(* C24 *)

\* the instruction already has a name in the namespace: register bound it,
\* to its own name or to a suffixed one
IsRegistered(i) == i \in DOMAIN bwd

\* C24: when the hoisting loop is at an instruction that is already
\* registered, or at a barrier or a measurement, its next step is the skip:
\* the loop moves on, and the namespace (both maps) and the three
\* declaration lists stay as they are.
C24_RegisteredIsSkipped ==
    [][(InLoop /\ (IsRegistered(Cur) \/ Obj(Cur).cls \in builtins)) =>
          /\ stack' = Advance(stack)
          /\ phase' = phase
          /\ fwd' = fwd
          /\ bwd' = bwd
          /\ gateDecl' = gateDecl
          /\ subDecl' = subDecl
          /\ opaqueDecl' = opaqueDecl]_vars

----------------------------------------------------------------------------
(* C25 *)

\* C25: within one export, a step leaves every instruction that register
\* has bound to a name bound to that name, and leaves the entry of that name
\* pointing to the instruction.
C25_NamesAreStable ==
    [][phase # "ready" =>
          \A i \in ObjIds :
              (IsRegistered(i) /\ fwd[bwd[i]] = InstVal(i)) =>
                  /\ i \in DOMAIN bwd'
                  /\ bwd'[i] = bwd[i]
                  /\ fwd'[bwd[i]] = InstVal(i)]_vars

----------------------------------------------------------------------------
(* C26 *)

\* C26: outside build_definition the flat-naming flag is false: before the
\* call, and after it on every exit path, also when the body builder raised;
\* so the top-level statements are built with the flag false.
C26_FlatFlagRestored == flatReg = FALSE

----------------------------------------------------------------------------
(* C27 *)

\* the qubit operands of a statement (of its call, for an if statement)
QubitOperands(st) == IF st.node = "ReturnStatement" THEN <<>> ELSE CallOf(st).args

\* the indexed forms `register[index]` of the qubits of the circuit
DeclaredQubits ==
    UNION {{regs.q[r].name \o "[" \o ToString(n) \o "]" : n \in 0..(regs.q[r].size - 1)} :
              r \in 1..Len(regs.q)}

\* C27: in every `gate` and `def` block each qubit operand of each body
\* statement is one flat identifier, one of the formal qubit arguments of
\* the block's signature; every top-level statement names its qubits in the
\* indexed form register[index] of a declared register.
C27_FlatInsideIndexedOutside ==
    phase = "done" =>
        /\ \A p \in BlockPositions :
              prog.statements[p].node # "CalibrationDefinition" =>
                  \A m \in 1..Len(prog.statements[p].body) :
                      \A a \in Range(QubitOperands(prog.statements[p].body[m])) :
                          /\ a.idx = <<>>
                          /\ IndexIdentifierQasm(a) \in Range(prog.statements[p].qargs)
        /\ \A p \in BlockPositions :
              prog.statements[p].qargs =
                  [n \in 1..Obj(Decls[p]).nq |-> "q_" \o ToString(n - 1)]
        /\ \A k \in 1..Len(circuit) :
              \A a \in Range(QubitOperands(TopStatement(k))) :
                  /\ Len(a.idx) = 1
                  /\ IndexIdentifierQasm(a) \in DeclaredQubits

C27_Witness ==
    /\ phase = "done"
    /\ circuit = <<SG, CXO>>
    /\ Len(regs.q) = 2
    /\ \E p \in BlockPositions :
          /\ prog.statements[p].name = "cx_o0"
          /\ StatementQasm(prog.statements[p].body[2]) = <<"cx q_0, q_1;\n">>
    /\ StatementQasm(TopStatement(2)) = <<"cx_o0 qr[0], qr[1];\n">>

----------------------------------------------------------------------------
(* C28 *)

\* C28: in a completed export every instruction of the circuit that has a
\* condition, gate or not, is emitted as an if statement on its condition,
\* never as an unconditional statement.
C28_ConditionNeverDropped ==
    phase = "done" =>
        \A k \in 1..Len(circuit) :
            Obj(circuit[k]).cond.kind # "none" =>
                /\ TopStatement(k).node = "BranchingStatement"
                /\ StatementQasm(TopStatement(k))[1] =
                       "if (" \o Obj(circuit[k]).cond.reg \o " == "
                       \o ToString(Obj(circuit[k]).cond.val) \o ")"

----------------------------------------------------------------------------
(* C29 *)

\* the node kind of the call of an instruction
KindOf(i) ==
    IF IsGate(Obj(i).cls) THEN "QuantumGateCall"
    ELSE IF Obj(i).cls = "Barrier" THEN "QuantumBarrier"
    ELSE IF Obj(i).cls = "Measure" THEN "QuantumMeasurementAssignment"
    ELSE "SubroutineCall"

\* the statement st is the statement of the instruction i, whose qubits are
\* written as the sequence `names` says
IsStatementOf(st, i, names) ==
    /\ st.node # "ReturnStatement"
    /\ CallOf(st).node = KindOf(i)
    /\ Len(QubitOperands(st)) = Len(Obj(i).qargs)
    /\ \A m \in 1..Len(Obj(i).qargs) :
          IndexIdentifierQasm(QubitOperands(st)[m]) = names[Obj(i).qargs[m] + 1]

\* the written forms of the qubits of the circuit, in the order of the bits
RECURSIVE IndexedNames(_)
IndexedNames(registers) ==
    IF Len(registers) = 0 THEN <<>>
    ELSE [n \in 1..registers[1].size |->
             registers[1].name \o "[" \o ToString(n - 1) \o "]"]
         \o IndexedNames(Tail(registers))

\* the statements of a block that stand for instructions
BodyStatements(block) ==
    SelectSeq(block.body, LAMBDA st : st.node # "ReturnStatement")

\* C29: every instruction list, the circuit's and that of every definition,
\* gets exactly one statement per instruction, in the order of the list,
\* each with the instruction's qubits in the instruction's order; and the
\* text is the header, then the global statements, then the statements of
\* the instructions.
C29_OrderAndCount ==
    phase = "done" =>
        /\ Len(prog.statements) =
              Len(Decls) + Len(StatementsOf("Input")) + Len(regs.c) + Len(regs.q)
              + Len(circuit)
        /\ \A k \in 1..Len(circuit) :
              IsStatementOf(TopStatement(k), circuit[k], IndexedNames(regs.q))
        /\ \A j \in 1..Len(Decls) :
              ~Obj(Decls[j]).def.none =>
                  /\ Len(BodyStatements(prog.statements[j])) = Len(Obj(Decls[j]).def.data)
                  /\ \A m \in 1..Len(Obj(Decls[j]).def.data) :
                        IsStatementOf(prog.statements[j].body[m], Obj(Decls[j]).def.data[m],
                                      prog.statements[j].qargs)
        /\ text = flatten_tree(HeaderQasm(prog.includes))
                  \o flatten_tree(BlockQasm(SubSeq(prog.statements, 1, FirstInstruction - 1)))
                  \o flatten_tree(BlockQasm(SubSeq(prog.statements, FirstInstruction,
                                                   Len(prog.statements))))

C29_Witness ==
    /\ phase = "done"
    /\ circuit = <<CXO, MEAS2>>
    /\ StatementQasm(TopStatement(1)) = <<"cx_o0 qr[0], qr[1];\n">>
    /\ TopStatement(2).node = "QuantumMeasurementAssignment"
    /\ Len(prog.statements[1].body) = 3

----------------------------------------------------------------------------
(* C30 *)

\* the instructions the body of i reaches, in one or more steps
ReachedFrom(i) == Closure(Range(Obj(i).def.data))

\* the composite instructions form a DAG: no body reaches its own
\* instruction
IsDAG == \A i \in ObjIds : i \notin ReachedFrom(i)

\* C30: the instructions forming a DAG, an export that has begun to hoist or
\* to build ends, with the text or with an error.
C30_ExportTerminates ==
    (IsDAG /\ phase \in {"hoist", "defs"}) ~> (phase \in {"done", "error"})

\* the body of an instruction that is bound to a suffixed name is walked
\* again
C30_Witness ==
    /\ phase = "hoist"
    /\ Len(stack) = 2
    /\ IsRegistered(Top.owner)
    /\ bwd[Top.owner] = SuffixedName(Top.owner)
    /\ Top.owner \in Range(gateDecl)

----------------------------------------------------------------------------

Next ==
    \/ StartExport
    \/ ExportAgain
    \/ ModuleDumps
    \/ ModuleDump
    \/ ExporterDump
    \/ ExporterDisableConstants
    \/ HoistTypeError
    \/ HoistSkip
    \/ HoistOpaque
    \/ HoistEnter
    \/ HoistReturn
    \/ HoistDone
    \/ BuildDefinition
    \/ BuildGlobals

Spec == Init /\ [][Next]_vars

\* The steps of a running export: a call of dumps() that has begun goes on
\* until it returns or raises
ExportStep ==
    \/ HoistTypeError
    \/ HoistSkip
    \/ HoistOpaque
    \/ HoistEnter
    \/ HoistReturn
    \/ HoistDone
    \/ BuildDefinition
    \/ BuildGlobals

LiveSpec == Init /\ [][Next]_vars /\ WF_vars(ExportStep)

====
